---- MODULE Spec2Model ----
(***************************************************************************)
(* Model of move_radarr.py / move_sonarr.py: a single-shot batch client    *)
(* that moves every entry carrying a tag to a root folder.  The two files  *)
(* differ only in endpoint names and log texts, so one model covers both;  *)
(* names follow move_radarr.py.                                            *)
(*                                                                         *)
(* Strings the code inspects (titles, paths) are sequences of characters,  *)
(* so that `in` (substring) and f-string concatenation are computed.       *)
(* Tag labels are only compared for equality and are TLA+ strings.         *)
(* Python's None is the empty tuple and a present value x is <<x>>.        *)
(***************************************************************************)
EXTENDS Integers, Sequences, FiniteSets, TLC

VARIABLES
    args,             \* the parsed command line (module global `args`)
    prev,             \* command lines of the earlier runs, oldest first
    server,           \* the manager: its catalog, tag table and root folders
    snapshot,         \* the body of the GET /movie response, as received
    movies_list,      \* main: the catalog, whose entries update rewrites in place
    tags,             \* main: the tag dict, later rebound to an entry's tags
    root_folders,     \* main: the root folder records
    tag_id,           \* main: the resolved target tag id, or None
    ignored_tag_ids,  \* main: the resolved exclusion tag ids
    pc,               \* position of main
    i,                \* position of the for loop in movies_list
    puts,             \* every PUT issued so far, over all runs
    log               \* what this run has logged or raised

vars == <<args, prev, server, snapshot, movies_list, tags, root_folders, tag_id,
          ignored_tag_ids, pc, i, puts, log>>

----------------------------------------------------------------------------
(* Bounds of the model.                                                    *)

\* Specification Spec (one run, the entry loop in breadth): catalogs of up
\* to MaxEntries entries, tag tables of NumTags tags, --ignore-tag lists of
\* NumIgnored names, root folder tables of NumRootFolders folders.
MaxEntries == 2
NumTags == 2
NumIgnored == 1
NumRootFolders == 1

\* Specification SpecCfg (one run, configuration resolution in breadth).
CfgMaxEntries == 1
CfgMaxTags == 3
CfgMaxIgnored == 2
CfgMaxRootFolders == 2

----------------------------------------------------------------------------
(* Values.                                                                 *)

None == <<>>
Some(x) == <<x>>
IsNone(o) == o = <<>>
Val(o) == o[1]

\* The status the code treats as success (line 126); 500 stands for every
\* other status.
Accepted == 202
Statuses == {Accepted, 500}

\* The sequences over S whose length is in lens.
SeqsOf(S, lens) == UNION {[1..k -> S] : k \in lens}

Range(s) == {s[k] : k \in 1..Len(s)}

\* Python str.__contains__: sub in s.
Contains(sub, s) ==
    \E k \in 0..(Len(s) - Len(sub)) : SubSeq(s, k + 1, k + Len(sub)) = sub

\* Python f"{a}/{b}".
JoinPath(a, b) == a \o <<"/">> \o b

\* Python truthiness of an optional string: None and "" are both falsy.
Truthy(o) == ~IsNone(o) /\ Val(o) # <<>>

----------------------------------------------------------------------------
(* The code's helpers.                                                     *)

\* One item of a Python dict kept in insertion order.
Item(k, v) == [id |-> k, label |-> v]

\* d[k] = v on a dict: an existing key keeps its place, a new key is last.
DictPut(d, k, v) ==
    IF \E j \in 1..Len(d) : d[j].id = k
    THEN [j \in 1..Len(d) |-> IF d[j].id = k THEN Item(k, v) ELSE d[j]]
    ELSE Append(d, Item(k, v))

\* {tag['id']: tag['label'] for tag in response.json()}
RECURSIVE get_tags(_)
get_tags(resp) ==
    IF resp = <<>> THEN <<>>
    ELSE LET last == resp[Len(resp)]
         IN  DictPut(get_tags(SubSeq(resp, 1, Len(resp) - 1)), last.id, last.label)

\* next((id for id, label in tags.items() if label == args.tag), None)
FindTagId(d, name) ==
    LET hits == SelectSeq(d, LAMBDA p : p.label = name)
    IN  IF hits = <<>> THEN None ELSE Some(hits[1].id)

\* `label in args.ignored_tags` is evaluated once per item of the dict; with
\* --ignore-tag absent args.ignored_tags is None and the test raises TypeError.
IgnoredTagIdsRaises(d, ignored) == d # <<>> /\ IsNone(ignored)

\* [id for id, label in tags.items() if label in args.ignored_tags]
IgnoredTagIds(d, ignored) ==
    IF d = <<>> THEN <<>>
    ELSE LET hits == SelectSeq(d, LAMBDA p : p.label \in Range(Val(ignored)))
         IN  [j \in 1..Len(hits) |-> hits[j].id]

\* len(ignored_tag_ids) != len(args.ignored_tags)
IgnoredCountDiffers(ids, ignored) == Len(ids) # Len(Val(ignored))

\* next((x for x in root_folders if x['path'] == args.root), None), truthy
RootFolderFound(folders, root) ==
    \E k \in 1..Len(folders) : folders[k].path = root

\* find_tag_root_folder_id: the id of the first folder with that path, or None.
\* main never calls it.
find_tag_root_folder_id(folders, new_root_folder_path) ==
    LET hits == SelectSeq(folders, LAMBDA f : f.path = new_root_folder_path)
    IN  IF hits = <<>> THEN None ELSE Some(hits[1].id)

\* not args.test or movie['title'] == args.test
Selected(movie, test) == IF Truthy(test) THEN movie.title = Val(test) ELSE TRUE

\* tag_id in tags and args.root in movie['rootFolderPath']
IsPlaced(movie, tid, root) ==
    tid \in movie.tags /\ Contains(root, movie.rootFolderPath)

\* IsIgnored without the exclusion test (the check of lines 122-123 left out).
IsIgnoredNever(movie, ids) == FALSE

\* len([id for id in tags if id in ignored_tag_ids]) > 0
IsIgnored(movie, ids) == movie.tags \cap Range(ids) # {}

\* Rewritten without line 80: rootFolderPath keeps its old value.
RewrittenKeepsRoot(movie, new_root_folder_id, new_root_folder_path) ==
    [movie EXCEPT !.rootFolderId = new_root_folder_id,
                  !.path = JoinPath(new_root_folder_path, movie.title)]

\* update_movie_root_folder, lines 80-82: the three fields it rewrites.
Rewritten(movie, new_root_folder_id, new_root_folder_path) ==
    [movie EXCEPT !.rootFolderPath = new_root_folder_path,
                  !.rootFolderId = new_root_folder_id,
                  !.path = JoinPath(new_root_folder_path, movie.title)]

\* The arguments main passes to update_movie_root_folder (line 125).
UpdateArgs(tid, root) == [new_root_folder_id |-> tid, new_root_folder_path |-> root]

\* AfterUpdate with a return in the else branch of line 128.
AfterUpdateAbort(status) == IF status = Accepted THEN "loop" ELSE "returned"

\* Lines 126-129: either branch only logs, and the loop goes on.
AfterUpdate(status) == "loop"

\* The manager stores the body of an accepted PUT /movie/{id}.
Store(catalog, id, body) ==
    [k \in 1..Len(catalog) |-> IF catalog[k].id = id THEN body ELSE catalog[k]]

Exception(kind) == [kind |-> kind, idx |-> 0]
Record(kind, idx) == [kind |-> kind, idx |-> idx]

Run == Len(prev) + 1

----------------------------------------------------------------------------
(* Inputs.                                                                 *)

Root_m == <<"/", "m">>
Root_m4 == <<"/", "m", "4">>
Root_k == <<"/", "k">>
Title_F == <<"F">>
Title_Fo == <<"F", "o">>

TagArg == "t"
Labels == {"a", "t"}
RootArgs == {Root_m}
FolderPaths == {Root_m, Root_m4}
EntryPaths == {Root_k, Root_m4}
Titles == {Title_F, Title_Fo}
EntryTagIds == {1, 2}
NoTest == None
Tests == {NoTest, Some(<<>>), Some(Title_F), Some(Title_Fo)}

\* Ids are positions in the tables; an entry's id is kept apart from its index.
EntryId(k) == 10 * k

TagTables(lens) ==
    {[k \in 1..Len(ls) |-> Item(k, ls[k])] : ls \in SeqsOf(Labels, lens)}

\* nargs='+': --ignore-tag is absent (None) or carries at least one name.
IgnoredArgs(names, lens) ==
    {None} \cup {Some(ns) : ns \in SeqsOf(names, lens \ {0})}

FolderTables(lens) ==
    {[k \in 1..Len(ps) |-> [id |-> k, path |-> ps[k]]] : ps \in SeqsOf(FolderPaths, lens)}

EntryShapes == [title : Titles, tags : SUBSET EntryTagIds, rootFolderPath : EntryPaths]

\* rootFolderId 0: the field is absent until the tool sets it.
Entry(k, sh) ==
    [id |-> EntryId(k), title |-> sh.title, tags |-> sh.tags,
     rootFolderPath |-> sh.rootFolderPath,
     path |-> JoinPath(sh.rootFolderPath, sh.title), rootFolderId |-> 0]

Catalogs(lens) ==
    {[k \in 1..Len(shs) |-> Entry(k, shs[k])] : shs \in SeqsOf(EntryShapes, lens)}

----------------------------------------------------------------------------
(* The program.                                                            *)

\* The state when main is entered, for command lines in A and managers in S.
InitOver(A, S) ==
    /\ args \in A
    /\ prev = <<>>
    /\ server \in S
    /\ snapshot = <<>>
    /\ movies_list = <<>>
    /\ tags = <<>>
    /\ root_folders = <<>>
    /\ tag_id = None
    /\ ignored_tag_ids = <<>>
    /\ pc = "get_movies"
    /\ i = 0
    /\ puts = <<>>
    /\ log = <<>>

Init ==
    InitOver([tag : {TagArg}, ignored_tags : IgnoredArgs({"a"}, {NumIgnored}),
              root : RootArgs, test : {NoTest, Some(Title_F)}],
             [movies : Catalogs(0..MaxEntries), tags : TagTables({NumTags}),
              rootfolders : FolderTables({NumRootFolders})])

InitCfg ==
    InitOver([tag : {TagArg}, ignored_tags : IgnoredArgs({"a", "b"}, 1..CfgMaxIgnored),
              root : RootArgs, test : Tests],
             [movies : Catalogs(0..CfgMaxEntries), tags : TagTables(0..CfgMaxTags),
              rootfolders : FolderTables(0..CfgMaxRootFolders)])

\* get_movies(), line 97.
GetMovies ==
    /\ pc = "get_movies"
    /\ snapshot' = server.movies
    /\ movies_list' = server.movies
    /\ pc' = "get_tags"
    /\ UNCHANGED <<args, prev, server, tags, root_folders, tag_id,
                   ignored_tag_ids, i, puts, log>>

\* get_tags(), line 98.
GetTags ==
    /\ pc = "get_tags"
    /\ tags' = get_tags(server.tags)
    /\ pc' = "get_root_folders"
    /\ UNCHANGED <<args, prev, server, snapshot, movies_list, root_folders, tag_id,
                   ignored_tag_ids, i, puts, log>>

\* get_root_folders(), line 99.
GetRootFolders ==
    /\ pc = "get_root_folders"
    /\ root_folders' = server.rootfolders
    /\ pc' = "resolve"
    /\ UNCHANGED <<args, prev, server, snapshot, movies_list, tags, tag_id,
                   ignored_tag_ids, i, puts, log>>

\* requests.get raises (no try/except anywhere): main ends with the exception.
GetRaises ==
    /\ pc \in {"get_movies", "get_tags", "get_root_folders"}
    /\ pc' = "raised"
    /\ log' = Append(log, Exception("ConnectionError"))
    /\ UNCHANGED <<args, prev, server, snapshot, movies_list, tags, root_folders, tag_id,
                   ignored_tag_ids, i, puts>>

\* Lines 100-101 when line 101 raises TypeError.
ResolveRaises ==
    /\ pc = "resolve"
    /\ IgnoredTagIdsRaises(tags, args.ignored_tags)
    /\ tag_id' = FindTagId(tags, args.tag)
    /\ pc' = "raised"
    /\ log' = Append(log, Exception("TypeError"))
    /\ UNCHANGED <<args, prev, server, snapshot, movies_list, tags, root_folders,
                   ignored_tag_ids, i, puts>>

\* Lines 100-113 otherwise: the three checks in order, then the loop.
Resolve ==
    /\ pc = "resolve"
    /\ ~IgnoredTagIdsRaises(tags, args.ignored_tags)
    /\ LET tid == FindTagId(tags, args.tag)
           ids == IgnoredTagIds(tags, args.ignored_tags)
       IN  /\ tag_id' = tid
           /\ ignored_tag_ids' = ids
           /\ IF IsNone(tid)
              THEN /\ log' = Append(log, Record("tag_not_found", 0))
                   /\ pc' = "returned"
                   /\ i' = i
              ELSE IF IgnoredCountDiffers(ids, args.ignored_tags)
              THEN /\ log' = Append(log, Record("ignored_not_found", 0))
                   /\ pc' = "returned"
                   /\ i' = i
              ELSE IF ~RootFolderFound(root_folders, args.root)
              THEN /\ log' = Append(log, Record("root_not_found", 0))
                   /\ pc' = "returned"
                   /\ i' = i
              ELSE /\ log' = log
                   /\ pc' = "loop"
                   /\ i' = 1
    /\ UNCHANGED <<args, prev, server, snapshot, movies_list, tags, root_folders, puts>>

InLoop == pc = "loop" /\ i <= Len(movies_list)

\* Line 116 false: the entry is passed over.
SkipEntry ==
    /\ InLoop
    /\ ~Selected(movies_list[i], args.test)
    /\ i' = i + 1
    /\ UNCHANGED <<args, prev, server, snapshot, movies_list, tags, root_folders, tag_id,
                   ignored_tag_ids, pc, puts, log>>

\* Lines 118-121.
AlreadyPlaced ==
    /\ InLoop
    /\ Selected(movies_list[i], args.test)
    /\ IsPlaced(movies_list[i], Val(tag_id), args.root)
    /\ tags' = movies_list[i].tags
    /\ log' = Append(log, Record("placed", i))
    /\ i' = i + 1
    /\ UNCHANGED <<args, prev, server, snapshot, movies_list, root_folders, tag_id,
                   ignored_tag_ids, pc, puts>>

\* Lines 122-123.
Ignored ==
    /\ InLoop
    /\ Selected(movies_list[i], args.test)
    /\ ~IsPlaced(movies_list[i], Val(tag_id), args.root)
    /\ IsIgnored(movies_list[i], ignored_tag_ids)
    /\ tags' = movies_list[i].tags
    /\ log' = Append(log, Record("ignored", i))
    /\ i' = i + 1
    /\ UNCHANGED <<args, prev, server, snapshot, movies_list, root_folders, tag_id,
                   ignored_tag_ids, pc, puts>>

\* Line 124 true.
Eligible ==
    /\ InLoop
    /\ Selected(movies_list[i], args.test)
    /\ ~IsPlaced(movies_list[i], Val(tag_id), args.root)
    /\ ~IsIgnored(movies_list[i], ignored_tag_ids)
    /\ Val(tag_id) \in movies_list[i].tags

\* The PUT of update_movie_root_folder, lines 84-91.
Put(body, returned, status) ==
    [run |-> Run, idx |-> i, id |-> body.id, moveFiles |-> TRUE, body |-> body,
     returned |-> returned, status |-> status]

\* Lines 124-129: the PUT returns a status.
Update ==
    /\ Eligible
    /\ LET a == UpdateArgs(Val(tag_id), args.root)
           body == Rewritten(movies_list[i], a.new_root_folder_id,
                             a.new_root_folder_path)
       IN  \E status \in Statuses :
             /\ movies_list' = [movies_list EXCEPT ![i] = body]
             /\ puts' = Append(puts, Put(body, TRUE, status))
             /\ server' = IF status = Accepted
                          THEN [server EXCEPT !.movies = Store(@, body.id, body)]
                          ELSE server
             /\ log' = Append(log, Record(IF status = Accepted THEN "updated"
                                          ELSE "update_failed", i))
             /\ pc' = AfterUpdate(status)
    /\ tags' = movies_list[i].tags
    /\ i' = i + 1
    /\ UNCHANGED <<args, prev, snapshot, root_folders, tag_id, ignored_tag_ids>>

\* Lines 124-125 when requests.put raises: nothing catches it.
UpdateRaises ==
    /\ Eligible
    /\ LET a == UpdateArgs(Val(tag_id), args.root)
           body == Rewritten(movies_list[i], a.new_root_folder_id,
                             a.new_root_folder_path)
       IN  /\ movies_list' = [movies_list EXCEPT ![i] = body]
           /\ puts' = Append(puts, Put(body, FALSE, 0))
    /\ tags' = movies_list[i].tags
    /\ log' = Append(log, Record("ConnectionError", i))
    /\ pc' = "raised"
    /\ UNCHANGED <<args, prev, server, snapshot, root_folders, tag_id, ignored_tag_ids, i>>

\* Lines 130-131.
Untagged ==
    /\ InLoop
    /\ Selected(movies_list[i], args.test)
    /\ ~IsPlaced(movies_list[i], Val(tag_id), args.root)
    /\ ~IsIgnored(movies_list[i], ignored_tag_ids)
    /\ Val(tag_id) \notin movies_list[i].tags
    /\ tags' = movies_list[i].tags
    /\ log' = Append(log, Record("untagged", i))
    /\ i' = i + 1
    /\ UNCHANGED <<args, prev, server, snapshot, movies_list, root_folders, tag_id,
                   ignored_tag_ids, pc, puts>>

\* The for loop is exhausted: main returns.
Return ==
    /\ pc = "loop"
    /\ i > Len(movies_list)
    /\ pc' = "returned"
    /\ UNCHANGED <<args, prev, server, snapshot, movies_list, tags, root_folders, tag_id,
                   ignored_tag_ids, i, puts, log>>

\* Some PUT of this run, and every PUT of this run was answered 202.
UpdatesAccepted ==
    /\ \E k \in 1..Len(puts) : puts[k].run = Run
    /\ \A k \in 1..Len(puts) :
         puts[k].run = Run => puts[k].returned /\ puts[k].status = Accepted

\* The script is started a second time, against the catalog the manager now
\* holds, after a run that returned with its updates accepted: the same
\* --tag, --ignore-tag and --root, and whatever --test the user passes.
Rerun ==
    /\ pc = "returned"
    /\ prev = <<>>
    /\ UpdatesAccepted
    /\ prev' = Append(prev, args)
    /\ \E t \in Tests : args' = [args EXCEPT !.test = t]
    /\ snapshot' = <<>>
    /\ movies_list' = <<>>
    /\ tags' = <<>>
    /\ root_folders' = <<>>
    /\ tag_id' = None
    /\ ignored_tag_ids' = <<>>
    /\ pc' = "get_movies"
    /\ i' = 0
    /\ log' = <<>>
    /\ UNCHANGED <<server, puts>>

Next ==
    \/ GetMovies
    \/ GetTags
    \/ GetRootFolders
    \/ GetRaises
    \/ ResolveRaises
    \/ Resolve
    \/ SkipEntry
    \/ AlreadyPlaced
    \/ Ignored
    \/ Update
    \/ UpdateRaises
    \/ Untagged
    \/ Return
    \/ Rerun

Spec == Init /\ [][Next]_vars

SpecCfg == InitCfg /\ [][Next]_vars

----------------------------------------------------------------------------
(* Vocabulary of the properties, stated over the manager's tables, the     *)
(* command line, the GET /movie response and the PUTs issued.              *)

PutsOf(r) == {k \in 1..Len(puts) : puts[k].run = r}
PutsFor(r, j) == {k \in PutsOf(r) : puts[k].idx = j}

KnownLabels == {server.tags[k].label : k \in 1..Len(server.tags)}
KnownRoots == {server.rootfolders[k].path : k \in 1..Len(server.rootfolders)}

ExclusionNames ==
    IF IsNone(args.ignored_tags) THEN {} ELSE Range(Val(args.ignored_tags))
ExclusionIds ==
    {server.tags[k].id : k \in {n \in 1..Len(server.tags) :
                                  server.tags[n].label \in ExclusionNames}}

TargetKnown == args.tag \in KnownLabels
ExclusionsKnown == ExclusionNames \subseteq KnownLabels
RootKnown == args.root \in KnownRoots

LogKinds == {log[k].kind : k \in 1..Len(log)}
TransportFailed == "ConnectionError" \in LogKinds
ConfigErrors == {"tag_not_found", "ignored_not_found", "root_not_found"}

\* main has ended, one way or the other.
RunOver == pc \in {"returned", "raised"}
\* The three GETs have returned and lines 100-113 have run.
Resolved == pc \in {"loop", "returned"} \/ (pc = "raised" /\ ~TransportFailed)
             \/ (pc = "raised" /\ i > 0)

\* The entry passes --test as the specification words it: no filter, or the
\* very same title.
PassesTest(e) == IF IsNone(args.test) THEN TRUE ELSE e.title = Val(args.test)

HasTarget(e) == ~IsNone(tag_id) /\ Val(tag_id) \in e.tags
HasExclusion(e) == e.tags \cap ExclusionIds # {}
PlacedAtFetch(e) == HasTarget(e) /\ Contains(args.root, e.rootFolderPath)
ShouldMove(e) == HasTarget(e) /\ ~HasExclusion(e) /\ ~PlacedAtFetch(e)

\* The log records of entry j, the entries that have any.
RecordsOf(j) == {k \in 1..Len(log) : log[k].idx = j}

\* PUT k is the update the relocation executor is to send for entry e.
WellFormedPut(k, e) ==
    /\ puts[k].id = e.id
    /\ puts[k].moveFiles
    /\ puts[k].body.rootFolderPath = args.root
    /\ puts[k].body.path = JoinPath(args.root, e.title)

----------------------------------------------------------------------------
(* C1: in a run whose target tag, exclusion tags and root folder are all   *)
(* found, every entry that passes --test, has the target tag, has no       *)
(* exclusion tag and is not already placed gets exactly one PUT, to its    *)
(* own id, with moveFiles=true, rootFolderPath = root and path =           *)
(* root/title, by the time the run is over.                                *)
C1_ExactlyOneUpdate ==
    (RunOver /\ Resolved /\ TargetKnown /\ ExclusionsKnown /\ RootKnown) =>
      \A j \in 1..Len(snapshot) :
        (PassesTest(snapshot[j]) /\ ShouldMove(snapshot[j])) =>
          /\ Cardinality(PutsFor(Run, j)) = 1
          /\ \A k \in PutsFor(Run, j) : WellFormedPut(k, snapshot[j])

(* C2: every PUT carries as rootFolderId the id of the root folder record  *)
(* whose path is the desired root.                                         *)
C2_RootFolderId ==
    \A k \in 1..Len(puts) :
      Some(puts[k].body.rootFolderId)
        = find_tag_root_folder_id(server.rootfolders, args.root)

(* C3: a PUT is issued only for an eligible entry: each PUT of the run     *)
(* belongs to an entry that, as fetched, has the target tag, has no        *)
(* exclusion tag and was not already placed.                               *)
C3_OnlyEligibleUpdated ==
    \A k \in PutsOf(Run) :
      /\ puts[k].idx \in 1..Len(snapshot)
      /\ puts[k].id = snapshot[puts[k].idx].id
      /\ ShouldMove(snapshot[puts[k].idx])

\* A run that has updated one entry and passed over a tagged entry that
\* carries an exclusion tag.
C3_Witness ==
    /\ pc = "returned"
    /\ PutsOf(Run) # {}
    /\ \E j \in 1..Len(snapshot) :
         /\ HasTarget(snapshot[j]) /\ HasExclusion(snapshot[j])
         /\ ~PlacedAtFetch(snapshot[j])
         /\ PutsFor(Run, j) = {}
         /\ \E k \in RecordsOf(j) : log[k].kind = "ignored"

(* C4: fail-closed exclusions: when some configured exclusion tag name is  *)
(* no known label, the run never enters the entry loop and issues no PUT.  *)
C4_FailClosed ==
    (Resolved /\ ~ExclusionsKnown) => (i = 0 /\ PutsOf(Run) = {})

(* C5: when the target tag name is no known label, or the desired root is  *)
(* no known root folder path, the run reports a configuration error,       *)
(* classifies no entry, issues no PUT and returns normally.                *)
C5_ConfigErrorReturns ==
    (RunOver /\ Resolved /\ (~TargetKnown \/ ~RootKnown)) =>
      /\ pc = "returned"
      /\ LogKinds \cap ConfigErrors # {}
      /\ \A k \in 1..Len(log) : log[k].idx = 0
      /\ PutsOf(Run) = {}

(* C6: exclusion tags are optional: without --ignore-tag and with a        *)
(* non-empty tag table, resolution raises nothing, yields no exclusion id  *)
(* and, the tag and root being known, reaches the entry loop.              *)
C6_ExclusionsOptional ==
    (Resolved /\ IsNone(args.ignored_tags) /\ server.tags # <<>>) =>
      /\ "TypeError" \notin LogKinds
      /\ ignored_tag_ids = <<>>
      /\ (TargetKnown /\ RootKnown) => i >= 1

(* C7: a status other than 202 does not end the run: while no exception    *)
(* is raised, main returns only after the last entry, the entries behind   *)
(* the loop position have each been visited once, in catalog order, and    *)
(* each of them that was eligible has had its one PUT, whatever status     *)
(* the earlier PUTs returned.                                              *)
C7_FailureNotFatal ==
    (pc \in {"loop", "returned"} /\ i > 0) =>
      /\ pc = "returned" => i = Len(movies_list) + 1
      /\ \A j \in 1..(i - 1) :
           /\ Cardinality(RecordsOf(j)) = (IF Selected(snapshot[j], args.test) THEN 1 ELSE 0)
           /\ Cardinality(PutsFor(Run, j))
                = (IF Selected(snapshot[j], args.test) /\ ShouldMove(snapshot[j])
                   THEN 1 ELSE 0)
      /\ \A k \in 1..Len(log) : log[k].idx < i
      /\ \A k \in 1..(Len(log) - 1) : log[k].idx < log[k + 1].idx

\* The PUT of one entry was answered with another status than 202, and a
\* later entry has had its PUT in the same run, which has returned.
C7_Witness ==
    /\ pc = "returned"
    /\ \E k1, k2 \in PutsOf(Run) :
         /\ puts[k1].returned /\ puts[k1].status # Accepted
         /\ puts[k1].idx < puts[k2].idx
         /\ puts[k2].returned

(* C8: with --test T only entries titled exactly T are classified or       *)
(* updated, whatever T is.                                                 *)
C8_TestFilterExact ==
    ~IsNone(args.test) =>
      /\ \A k \in 1..Len(log) :
           log[k].idx > 0 => snapshot[log[k].idx].title = Val(args.test)
      /\ \A k \in PutsOf(Run) : snapshot[puts[k].idx].title = Val(args.test)

\* An entry that has the target tag and whose root folder path contains the
\* desired root gets no PUT, exclusion tag or not.
PlacedNeverUpdated ==
    \A k \in PutsOf(Run) : ~PlacedAtFetch(snapshot[puts[k].idx])

(* C9, as written: a placed entry gets no PUT, and a second run with the   *)
(* same tag, exclusion tags and root, after a run whose updates were       *)
(* accepted and stored, issues no PUT.                                     *)
C9_SecondRunIssuesNothing ==
    /\ PlacedNeverUpdated
    /\ Run = 2 => PutsOf(2) = {}

(* C9, amended: a placed entry gets no PUT, and a second run with the      *)
(* same tag, exclusion tags, root and --test, after a run whose updates    *)
(* were accepted and stored, issues no PUT.                                *)
C9_SameCommandIssuesNothing ==
    /\ PlacedNeverUpdated
    /\ (Run = 2 /\ args.test = prev[1].test) => PutsOf(2) = {}

\* The second run of the same command line has returned: it has found the
\* entry the first run moved already placed, and has issued nothing.
C9_Witness ==
    /\ Run = 2
    /\ pc = "returned"
    /\ args = prev[1]
    /\ PutsOf(2) = {}
    /\ \E k \in PutsOf(1) : \E n \in RecordsOf(puts[k].idx) : log[n].kind = "placed"

(* C10: a transport failure of one entry's PUT becomes a failure record    *)
(* of that entry and the run goes on; only a failure of a configuration    *)
(* call ends the run.                                                      *)
C10_PutFailureNotFatal ==
    /\ pc = "raised" => i = 0
    /\ \A k \in PutsOf(Run) :
         ~puts[k].returned =>
           \E n \in RecordsOf(puts[k].idx) : log[n].kind = "update_failed"

====
